---- MODULE Spec2Model ----
(***************************************************************************)
(* A model of src/util.ts of setup-node: the node-version-file resolver    *)
(* getNodeVersionFromFile, the tool prober getToolVersion with its         *)
(* companion printEnvDetailsAndSetOutput, and the dedup factory unique.    *)
(*                                                                         *)
(* Text is modelled as a sequence of chunks.  A chunk is an indivisible    *)
(* piece of a string: a whitespace character (" ", "\n") or a run of       *)
(* non-whitespace characters ("node", "js", "v", "18", ...).               *)
(***************************************************************************)
EXTENDS Integers, Sequences, FiniteSets, TLC

VARIABLES
  files,        \* the file system: path -> file
  pretty,       \* whether the manifests on disk are indented or compact
  start,        \* the versionFilePath of the outermost call
  stack,        \* call stack of getNodeVersionFromFile: the path of each frame
  fpc,          \* "idle", "enter", "return", "throw", "done"
  fval,         \* the value returned or the error thrown, in flight or final
  flog,         \* core.info lines written by the resolver
  applied,      \* paths getNodeVersionFromFile has been applied to
  plainApplied  \* [path, caught]: frames that read their contents as plain text

fileVars == <<files, pretty, start, stack, fpc, fval, flog, applied, plainApplied>>

VARIABLES
  epc,          \* printEnvDetailsAndSetOutput: "idle", "awaitAll", "done", "threw"
  task,         \* per tool: the async callback of line 68 and its getToolVersion
  elog,         \* what core.startGroup/info/error/setOutput/endGroup received
  settled       \* the tools in the order their callbacks settled

envVars == <<epc, task, elog, settled>>

VARIABLES
  preds,        \* the predicates unique() has returned: name -> encountered
  calls         \* the calls made to them: [pred, value, result], in order

uniqueVars == <<preds, calls>>

vars == <<fileVars, envVars, uniqueVars>>

----------------------------------------------------------------------------
(* Bounds *)

MaxLen == 5        \* longest plain-text file, in chunks
StackLimit == 3    \* frames the call stack holds before RangeError
MaxExitCode == 1   \* largest exit code a tool ends with
MaxCalls == 6      \* calls made to the predicates of unique

----------------------------------------------------------------------------
(* Strings *)

Whitespace == {" ", "\n"}
LineTerminators == {"\n"}

RECURSIVE TrimStart(_)
TrimStart(s) ==
  IF s # <<>> /\ Head(s) \in Whitespace THEN TrimStart(Tail(s)) ELSE s

RECURSIVE TrimEnd(_)
TrimEnd(s) ==
  IF s # <<>> /\ s[Len(s)] \in Whitespace
  THEN TrimEnd(SubSeq(s, 1, Len(s) - 1))
  ELSE s

\* String.prototype.trim
Trim(s) == TrimEnd(TrimStart(s))

RECURSIVE SeqsUpTo(_, _)
SeqsUpTo(S, n) ==
  IF n = 0 THEN {<<>>}
  ELSE LET shorter == SeqsUpTo(S, n - 1)
       IN  shorter \cup {Append(s, c) : s \in shorter, c \in S}

----------------------------------------------------------------------------
(* Regular expressions: a backtracking matcher over a pattern tree.  A      *)
(* match state is [pos, cap]: the next position and the capture so far.     *)
(* MatchRe returns the match states in the order backtracking tries them.   *)

Bol == [t |-> "bol"]
Eol == [t |-> "eol"]
Lit(c) == [t |-> "lit", c |-> c]
Opt(r) == [t |-> "opt", r |-> r]
Plus(cls) == [t |-> "plus", cls |-> cls, neg |-> FALSE]
PlusNot(cls) == [t |-> "plus", cls |-> cls, neg |-> TRUE]
Cat(rs) == [t |-> "cat", rs |-> rs]
Group(r) == [t |-> "group", r |-> r]

NoCapture == [set |-> FALSE, val |-> <<>>]

InClass(c, re) == IF re.neg THEN c \notin re.cls ELSE c \in re.cls

RECURSIVE RunLength(_, _, _)
RunLength(re, s, pos) ==
  IF pos <= Len(s) /\ InClass(s[pos], re)
  THEN 1 + RunLength(re, s, pos + 1)
  ELSE 0

\* greedy repetition: the longest run first, then shorter ones, down to least
RECURSIVE Repeats(_, _, _, _)
Repeats(pos, n, least, cap) ==
  IF n < least THEN <<>>
  ELSE <<[pos |-> pos + n, cap |-> cap]>> \o Repeats(pos, n - 1, least, cap)

SetCapture(s, from, states) ==
  [i \in 1..Len(states) |->
     [pos |-> states[i].pos,
      cap |-> [set |-> TRUE, val |-> SubSeq(s, from, states[i].pos - 1)]]]

RECURSIVE MatchRe(_, _, _, _), MatchAll(_, _, _, _), MatchCat(_, _, _, _)
MatchRe(re, s, pos, cap) ==
  CASE re.t = "bol" ->
         IF pos = 1 \/ s[pos - 1] \in LineTerminators
         THEN <<[pos |-> pos, cap |-> cap]>> ELSE <<>>
    [] re.t = "eol" ->
         IF pos = Len(s) + 1 \/ s[pos] \in LineTerminators
         THEN <<[pos |-> pos, cap |-> cap]>> ELSE <<>>
    [] re.t = "lit" ->
         IF pos <= Len(s) /\ s[pos] = re.c
         THEN <<[pos |-> pos + 1, cap |-> cap]>> ELSE <<>>
    [] re.t = "opt" ->
         MatchRe(re.r, s, pos, cap) \o <<[pos |-> pos, cap |-> cap]>>
    [] re.t = "plus" -> Repeats(pos, RunLength(re, s, pos), 1, cap)
    [] re.t = "cat" -> MatchCat(re.rs, s, <<[pos |-> pos, cap |-> cap]>>, 1)
    [] re.t = "group" -> SetCapture(s, pos, MatchRe(re.r, s, pos, cap))

MatchAll(re, s, states, i) ==
  IF i > Len(states) THEN <<>>
  ELSE MatchRe(re, s, states[i].pos, states[i].cap)
         \o MatchAll(re, s, states, i + 1)

MatchCat(rs, s, states, k) ==
  IF k > Len(rs) THEN states
  ELSE MatchCat(rs, s, MatchAll(rs[k], s, states, 1), k + 1)

\* String.prototype.match without the g flag: the leftmost start position
\* at which the pattern matches, and there the first match backtracking finds
RECURSIVE StringMatchFrom(_, _, _)
StringMatchFrom(re, s, pos) ==
  IF pos > Len(s) + 1 THEN [found |-> FALSE, version |-> <<>>]
  ELSE LET ms == MatchRe(re, s, pos, NoCapture)
       IN  IF ms # <<>>
           THEN [found |-> TRUE, version |-> ms[1].cap.val]
           ELSE StringMatchFrom(re, s, pos + 1)

StringMatch(re, s) == StringMatchFrom(re, s, 1)

\* the pattern without its v?
NodeVersionReKeepsV ==
  Cat(<<Bol,
        Opt(Cat(<<Lit("node"), Opt(Lit("js")), Plus(Whitespace)>>)),
        Group(PlusNot(Whitespace)),
        Eol>>)

\* /^(?:node(js)?\s+)?v?(?<version>[^\s]+)$/m
NodeVersionRe ==
  Cat(<<Bol,
        Opt(Cat(<<Lit("node"), Opt(Lit("js")), Plus(Whitespace)>>)),
        Opt(Lit("v")),
        Group(PlusNot(Whitespace)),
        Eol>>)

\* found?.groups?.version ?? contents.trim()
PlainTextVersion(contents) ==
  LET found == StringMatch(NodeVersionRe, contents)
  IN  IF found.found THEN found.version ELSE Trim(contents)

----------------------------------------------------------------------------
(* Paths: absolute paths as sequences of segments *)

RECURSIVE Normalize(_, _)
Normalize(base, rel) ==
  IF rel = <<>> THEN base
  ELSE IF Head(rel) = "." THEN Normalize(base, Tail(rel))
  ELSE IF Head(rel) = ".."
       THEN Normalize(IF base = <<>> THEN <<>>
                      ELSE SubSeq(base, 1, Len(base) - 1), Tail(rel))
  ELSE Normalize(Append(base, Head(rel)), Tail(rel))

\* path.dirname
Dirname(p) == SubSeq(p, 1, Len(p) - 1)

\* path.resolve(path.dirname(versionFilePath), manifest.volta.extends)
ExtendedFilePath(versionFilePath, extends) ==
  Normalize(Dirname(versionFilePath), extends)

----------------------------------------------------------------------------
(* Files *)

Paths == {<<"a">>, <<"p", "a">>}
StartPaths == Paths \cup {<<"b">>}
ExtendsValues == {<<"..", "a">>, <<".", "a">>, <<"p", "a">>}
SampleTexts == {<<"v", "18", "\n">>, <<"18">>, <<"null">>, <<"lts/hydrogen", " ">>}

Absent == [has |-> FALSE, val |-> <<>>]
Field(v) == [has |-> TRUE, val |-> v]

Missing ==
  [kind |-> "missing", chars |-> <<>>,
   voltaNode |-> Absent, enginesNode |-> Absent, voltaExtends |-> Absent]

TextFile(chars) ==
  [kind |-> "text", chars |-> chars,
   voltaNode |-> Absent, enginesNode |-> Absent, voltaExtends |-> Absent]

Manifests ==
  [kind : {"manifest"}, chars : {<<>>},
   voltaNode : {Absent, Field(<<>>), Field(<<"20">>)},
   enginesNode : {Absent, Field(<<"16">>)},
   voltaExtends : {Absent} \cup {Field(e) : e \in ExtendsValues}]

FileContents == {Missing} \cup {TextFile(t) : t \in SampleTexts} \cup Manifests

\* fs.existsSync
ExistsSync(fs, p) == p \in DOMAIN fs /\ fs[p].kind # "missing"

RECURSIVE JoinPath(_)
JoinPath(segs) ==
  IF Len(segs) <= 1 THEN segs
  ELSE <<Head(segs), "/">> \o JoinPath(Tail(segs))

Quoted(v) == <<"\"">> \o v \o <<"\"">>

Member(key, f) == IF f.has THEN <<<<key, ":">> \o Quoted(f.val)>> ELSE <<>>

\* the members of the manifest's top-level object, each as compact JSON text
TopMembers(m) ==
  LET volta == Member("\"node\"", m.voltaNode)
                 \o Member("\"extends\"",
                           [has |-> m.voltaExtends.has,
                            val |-> JoinPath(m.voltaExtends.val)])
      inner(ms) == IF Len(ms) = 2 THEN ms[1] \o <<",">> \o ms[2] ELSE ms[1]
  IN  (IF volta = <<>> THEN <<>>
       ELSE <<<<"\"volta\"", ":", "{">> \o inner(volta) \o <<"}">>>>)
      \o (IF m.enginesNode.has
          THEN <<<<"\"engines\"", ":", "{">>
                   \o inner(Member("\"node\"", m.enginesNode)) \o <<"}">>>>
          ELSE <<>>)

\* the text of a manifest on disk: one line, or one member per indented line
ManifestText(m, indented) ==
  LET ms == TopMembers(m)
      sep == IF indented THEN <<"\n", " ", " ">> ELSE <<>>
      end == IF indented /\ ms # <<>> THEN <<"\n">> ELSE <<>>
      body == IF ms = <<>> THEN <<>>
              ELSE IF Len(ms) = 1 THEN sep \o ms[1]
              ELSE sep \o ms[1] \o <<",">> \o sep \o ms[2]
  IN  <<"{">> \o body \o end \o <<"}">>

\* fs.readFileSync(versionFilePath, 'utf8')
ReadFileSync(fs, indented, p) ==
  IF fs[p].kind = "manifest" THEN ManifestText(fs[p], indented)
  ELSE fs[p].chars

\* JSON.parse of a file's text.  A manifest's text parses to the object it
\* was written from.  Of the plain texts over the chunks used here, the
\* ones JSON accepts are a number or null with whitespace around it.
JSONParse(file) ==
  IF file.kind = "manifest" THEN [ok |-> TRUE, type |-> "object"]
  ELSE LET t == Trim(file.chars)
       IN  IF t = <<"null">> THEN [ok |-> TRUE, type |-> "null"]
           ELSE IF t # <<>> /\ \A i \in 1..Len(t) : t[i] = "18"
                THEN [ok |-> TRUE, type |-> "number"]
                ELSE [ok |-> FALSE, type |-> "SyntaxError"]

\* typeof manifest === 'object' && !!manifest
IsObject(parsed) == parsed.ok /\ parsed.type = "object"

\* truthiness of an optional string field
Truthy(f) == f.has /\ f.val # <<>>

----------------------------------------------------------------------------
(* getToolVersion *)

Tools == <<"node", "npm", "yarn">>
ToolSet == {Tools[i] : i \in 1..Len(Tools)}

Stdouts == {<<" ", "v20.1.0", "\n">>, <<>>}
Stderr == <<"boom", "\n">>

\* what the race of line 101 settled with: an ExecOutput, or a thrown value
Resolved(exitCode, stdout, stderr) ==
  [resolved |-> TRUE, exitCode |-> exitCode, stdout |-> stdout,
   stderr |-> stderr, isError |-> FALSE, message |-> <<>>]

Rejected(isError, message) ==
  [resolved |-> FALSE, exitCode |-> 0, stdout |-> <<>>, stderr |-> <<>>,
   isError |-> isError, message |-> message]

Unsettled == Rejected(FALSE, <<"unsettled">>)

\* lines 92-98: new Error(`Command timed out after ${TIMEOUT_DURATION}ms`)
TimeoutError == Rejected(TRUE, <<"Command", "timed out", "after", "30000ms">>)

\* what exec.getExecOutput can settle with: any exit code and output, any
\* Error, and any value that is not an Error
ExecSettlements ==
  {Resolved(c, out, Stderr) : c \in 0..MaxExitCode, out \in Stdouts}
    \cup {Rejected(TRUE, <<"spawn", "ENOENT">>),
          Rejected(TRUE, <<"connection", "timed out">>),
          Rejected(FALSE, <<>>)}

\* String.prototype.includes, on words
Includes(message, word) == \E i \in 1..Len(message) : message[i] = word

Entry(level, kind, tool, text) ==
  [level |-> level, kind |-> kind, tool |-> tool, text |-> text]

\* lines 117-129: which message the catch block logs
ErrorKind(err) ==
  IF err.isError /\ Includes(err.message, "timed out") THEN "timeout"
  ELSE IF err.isError THEN "execution"
  ELSE "unknown"

\* lines 110-113 without the exit-code test
IgnoresExitCode(tool, s) ==
  IF s.resolved
  THEN [raised |-> FALSE, output |-> Trim(s.stdout), log |-> <<>>]
  ELSE [raised |-> FALSE, output |-> <<>>,
        log |-> <<Entry("error", ErrorKind(s), tool, s.message)>>]

\* lines 108-131: getToolVersion from the settlement of the race on
ToolVersion(tool, s) ==
  IF s.resolved
  THEN IF s.exitCode > 0
       THEN [raised |-> FALSE, output |-> <<>>,
             log |-> <<Entry("info", "warning", tool, s.stderr)>>]
       ELSE [raised |-> FALSE, output |-> Trim(s.stdout), log |-> <<>>]
  ELSE [raised |-> FALSE, output |-> <<>>,
        log |-> <<Entry("error", ErrorKind(s), tool, s.message)>>]

----------------------------------------------------------------------------
(* printEnvDetailsAndSetOutput *)

NotStarted ==
  [pc |-> "notStarted", probed |-> FALSE, exec |-> "idle", timer |-> "idle",
   winner |-> "none", settlement |-> Unsettled, raised |-> FALSE,
   output |-> <<>>]

EnvIdle ==
  /\ epc = "idle"
  /\ task = [t \in ToolSet |-> NotStarted]
  /\ elog = <<>>
  /\ settled = <<>>
  /\ preds = <<>>
  /\ calls = <<>>

\* line 68: map calls the callback for every tool, and each call runs to
\* its first await
Launched(ts) == ts

\* lines 67-75, up to the await of Promise.all
Start ==
  /\ epc = "idle"
  /\ epc' = "awaitAll"
  /\ elog' = Append(elog, Entry("info", "startGroup", "", <<>>))
  /\ task' = [t \in ToolSet |->
                IF t \in Launched(ToolSet)
                THEN [task[t] EXCEPT !.pc = "which"] ELSE task[t]]
  /\ UNCHANGED <<settled, fileVars, uniqueVars>>

\* line 69-70: io.which(tool, false) settles; a tool found is probed
WhichSettles(t, found) ==
  /\ task[t].pc = "which"
  /\ IF found
     THEN /\ task' = [task EXCEPT ![t].pc = "racing", ![t].probed = TRUE,
                                  ![t].exec = "pending", ![t].timer = "armed"]
          /\ UNCHANGED settled
     ELSE /\ task' = [task EXCEPT ![t].pc = "done"]
          /\ settled' = Append(settled, t)
  /\ UNCHANGED <<epc, elog, fileVars, uniqueVars>>

\* lines 101-131 and 72: the race settles with s and getToolVersion returns
Settle(t, by, s) ==
  LET r == ToolVersion(t, s)
  IN  /\ task' = [task EXCEPT ![t].pc = IF r.raised THEN "failed" ELSE "done",
                              ![t].winner = by,
                              ![t].settlement = s,
                              ![t].raised = r.raised,
                              ![t].output = r.output,
                              ![t].exec = IF by = "exec"
                                          THEN IF s.resolved THEN "resolved"
                                               ELSE "rejected"
                                          ELSE @,
                              ![t].timer = IF by = "timer" THEN "fired" ELSE @]
      /\ elog' = elog \o r.log
      /\ settled' = Append(settled, t)

\* exec.getExecOutput settles, first or after the timer
ExecSettles(t, s) ==
  /\ task[t].exec = "pending"
  /\ IF task[t].pc = "racing"
     THEN Settle(t, "exec", s)
     ELSE /\ task' = [task EXCEPT ![t].exec = IF s.resolved THEN "resolved"
                                              ELSE "rejected"]
          /\ UNCHANGED <<elog, settled>>
  /\ UNCHANGED <<epc, fileVars, uniqueVars>>

\* the timer may settle the race only once the process has ended
TimerWaitsForExec(t) == task[t].timer = "armed" /\ task[t].exec # "pending"

\* lines 93-97: setTimeout's callback is due; nothing clears the timer
TimerDue(t) == task[t].timer = "armed"

TimerFires(t) ==
  /\ TimerDue(t)
  /\ IF task[t].pc = "racing"
     THEN Settle(t, "timer", TimeoutError)
     ELSE /\ task' = [task EXCEPT ![t].timer = "fired"]
          /\ UNCHANGED <<elog, settled>>
  /\ UNCHANGED <<epc, fileVars, uniqueVars>>

RECURSIVE ResultLines(_, _)
ResultLines(order, tk) ==
  IF order = <<>> THEN <<>>
  ELSE LET tool == Head(order)
       IN  (IF tool = "node"
            THEN <<Entry("output", "setOutput", tool, tk[tool].output)>>
            ELSE <<>>)
           \o <<Entry("info", "result", tool, tk[tool].output)>>
           \o ResultLines(Tail(order), tk)

\* results handled as the callbacks settle
CompletionOrder(order) == order

\* Promise.all keeps the order of the promises it is given
ResultOrder(order) == Tools

\* lines 75-83: Promise.all settles and the results are reported
Report ==
  /\ epc = "awaitAll"
  /\ \/ \A t \in ToolSet : task[t].pc = "done"
     \/ \E t \in ToolSet : task[t].pc = "failed"
  /\ IF \E t \in ToolSet : task[t].pc = "failed"
     THEN /\ epc' = "threw"
          /\ UNCHANGED elog
     ELSE /\ epc' = "done"
          /\ elog' = elog \o ResultLines(ResultOrder(settled), task)
                          \o <<Entry("info", "endGroup", "", <<>>)>>
  /\ UNCHANGED <<task, settled, fileVars, uniqueVars>>

InitEnv ==
  /\ files = [p \in Paths |-> Missing]
  /\ pretty = FALSE
  /\ start = <<>>
  /\ stack = <<>>
  /\ fpc = "idle"
  /\ fval = [kind |-> "none", val |-> <<>>, err |-> "none"]
  /\ flog = <<>>
  /\ applied = {}
  /\ plainApplied = {}
  /\ EnvIdle

NextEnv ==
  \/ Start
  \/ \E t \in ToolSet, found \in BOOLEAN : WhichSettles(t, found)
  \/ \E t \in ToolSet, s \in ExecSettlements : ExecSettles(t, s)
  \/ \E t \in ToolSet : TimerFires(t)
  \/ Report

SpecEnv == InitEnv /\ [][NextEnv]_vars

\* the event loop runs a timer callback that is due
FairEnv == SpecEnv /\ \A t \in ToolSet : WF_vars(TimerFires(t))

----------------------------------------------------------------------------
(* unique *)

Predicates == {"f", "g"}
Values == {1, 2, 3}

\* line 136 without line 138
Forgets(encountered, value) == encountered

\* line 138: encountered.add(value), skipped by the return of line 137
Add(encountered, value) == encountered \cup {value}

\* line 134-136: unique() makes a new empty Set and returns a predicate on it
Unique(f) ==
  /\ f \notin DOMAIN preds
  /\ preds' = [g \in DOMAIN preds \cup {f} |-> IF g = f THEN {} ELSE preds[g]]
  /\ UNCHANGED <<calls, fileVars, envVars>>

\* lines 136-140: a call of the predicate
Call(f, value) ==
  /\ f \in DOMAIN preds
  /\ Len(calls) < MaxCalls
  /\ IF value \in preds[f]
     THEN /\ calls' = Append(calls, [pred |-> f, value |-> value,
                                     result |-> FALSE])
          /\ UNCHANGED preds
     ELSE /\ calls' = Append(calls, [pred |-> f, value |-> value,
                                     result |-> TRUE])
          /\ preds' = [preds EXCEPT ![f] = Add(@, value)]
  /\ UNCHANGED <<fileVars, envVars>>

NextUnique ==
  \/ \E f \in Predicates : Unique(f)
  \/ \E f \in Predicates, value \in Values : Call(f, value)

SpecUnique == InitEnv /\ [][NextUnique]_vars

----------------------------------------------------------------------------
(* getNodeVersionFromFile *)

NoVal == [kind |-> "none", val |-> <<>>, err |-> "none"]
NullVal == [kind |-> "null", val |-> <<>>, err |-> "none"]
StringVal(v) == [kind |-> "string", val |-> v, err |-> "none"]
Error(e) == [kind |-> "error", val |-> <<>>, err |-> e]

Top == stack[Len(stack)]

\* the frame on top finishes: with a return or a throw to the frame below,
\* or to the caller when it is the outermost frame
Leave(how, v) ==
  /\ stack' = SubSeq(stack, 1, Len(stack) - 1)
  /\ fpc' = IF Len(stack) = 1 THEN "done" ELSE how
  /\ fval' = v

\* lines 62-63
ReadAsPlainText(caught) ==
  /\ plainApplied' = plainApplied \cup {[path |-> Top, caught |-> caught]}
  /\ Leave("return", StringVal(PlainTextVersion(ReadFileSync(files, pretty, Top))))

\* whether the call stack, depth frames deep, holds that many frames more
HasRoom(depth, frames) == depth + frames <= StackLimit

\* lines 58-63: the catch clause names no type, so it catches whatever the
\* try block threw: JSON.parse's SyntaxError, and the missing-file Error or
\* the RangeError of the call of line 44.  With the stack exhausted,
\* core.info may itself overflow; the RangeError then leaves this frame,
\* whose caller holds the call in a try block of its own.
Catch(e, logged) ==
  \E overflow \in IF e = "RangeError" /\ Len(stack) >= 2
                  THEN BOOLEAN ELSE {FALSE} :
    IF overflow
    THEN /\ Leave("throw", Error("RangeError"))
         /\ flog' = logged
         /\ UNCHANGED plainApplied
    ELSE /\ flog' = Append(logged, [msg |-> "notJSON", path |-> Top])
         /\ ReadAsPlainText(e)

\* lines 62-63 reached after a manifest with none of the three fields
FallThroughToPlainText(contents) == StringVal(PlainTextVersion(contents))

\* lines 47-56: a manifest with none of the three fields
NoVersionField(contents) == NullVal

\* top-level call by the action's main flow
Invoke(p) ==
  /\ fpc = "idle"
  /\ start' = p
  /\ stack' = <<p>>
  /\ fpc' = "enter"
  /\ applied' = {p}
  /\ UNCHANGED <<files, pretty, fval, flog, plainApplied, envVars, uniqueVars>>

\* lines 12-63 of the frame on top, up to its return, its throw or the
\* recursive call of line 44
Body ==
  /\ fpc = "enter"
  /\ LET p == Top
         file == files[p]
         parsed == JSONParse(file)
     IN  IF ~ExistsSync(files, p)
         THEN /\ Leave("throw", Error("MissingFile"))
              /\ UNCHANGED <<flog, applied, plainApplied>>
         ELSE IF ~parsed.ok
         THEN /\ Catch("SyntaxError", flog)
              /\ UNCHANGED applied
         ELSE IF ~IsObject(parsed)
         THEN /\ ReadAsPlainText("none")
              /\ UNCHANGED <<flog, applied>>
         ELSE IF Truthy(file.voltaNode)
         THEN /\ Leave("return", StringVal(file.voltaNode.val))
              /\ UNCHANGED <<flog, applied, plainApplied>>
         ELSE IF Truthy(file.enginesNode)
         THEN /\ Leave("return", StringVal(file.enginesNode.val))
              /\ UNCHANGED <<flog, applied, plainApplied>>
         ELSE IF Truthy(file.voltaExtends)
         THEN LET extendedFilePath == ExtendedFilePath(p, file.voltaExtends.val)
                  logged == Append(flog, [msg |-> "resolving",
                                          path |-> extendedFilePath])
              IN  IF HasRoom(Len(stack), 1)
                  THEN /\ stack' = Append(stack, extendedFilePath)
                       /\ applied' = applied \cup {extendedFilePath}
                       /\ flog' = logged
                       /\ UNCHANGED <<fpc, fval, plainApplied>>
                  ELSE /\ Catch("RangeError", logged)
                       /\ UNCHANGED applied
         ELSE /\ Leave("return", NoVersionField(ReadFileSync(files, pretty, p)))
              /\ UNCHANGED <<flog, applied, plainApplied>>
  /\ UNCHANGED <<files, pretty, start, envVars, uniqueVars>>

\* line 44: return getNodeVersionFromFile(extendedFilePath), the call returned
ResumeReturn ==
  /\ fpc = "return"
  /\ Leave("return", fval)
  /\ UNCHANGED <<files, pretty, start, flog, applied, plainApplied, envVars, uniqueVars>>

\* line 44 inside the try block of line 21: the call threw
ResumeThrow ==
  /\ fpc = "throw"
  /\ Catch(fval.err, flog)
  /\ UNCHANGED <<files, pretty, start, applied, envVars, uniqueVars>>

InitCall ==
  /\ start = <<>>
  /\ stack = <<>>
  /\ fpc = "idle"
  /\ fval = NoVal
  /\ flog = <<>>
  /\ applied = {}
  /\ plainApplied = {}
  /\ EnvIdle

\* any two-file workspace
Init ==
  /\ files \in [Paths -> FileContents]
  /\ pretty \in BOOLEAN
  /\ InitCall

Next ==
  \/ \E p \in StartPaths : Invoke(p)
  \/ Body
  \/ ResumeReturn
  \/ ResumeThrow

Spec == Init /\ [][Next]_vars

\* one plain-text file
InitText ==
  /\ \E t \in SeqsUpTo({"node", "js", "v", "18", " ", "\n"}, MaxLen) :
       files = [p \in Paths |-> IF p = <<"a">> THEN TextFile(t) ELSE Missing]
  /\ pretty = FALSE
  /\ InitCall

NextText ==
  \/ Invoke(<<"a">>)
  \/ Body

SpecText == InitText /\ [][NextText]_vars

----------------------------------------------------------------------------
(* Properties of getNodeVersionFromFile *)

Returned == fpc = "done"

StartFile == files[start]

HasNoVersionField(file) ==
  /\ ~Truthy(file.voltaNode)
  /\ ~Truthy(file.enginesNode)
  /\ ~Truthy(file.voltaExtends)

OnlyExtends(file) ==
  /\ ~Truthy(file.voltaNode)
  /\ ~Truthy(file.enginesNode)
  /\ Truthy(file.voltaExtends)

\* C1 as stated: a file's contents are read as plain text only when parsing
\* them as JSON failed, and a parsed manifest with none of volta.node,
\* engines.node, volta.extends yields null.
C1_PlainTextOnlyAfterParseFailure ==
  /\ \A r \in plainApplied : ~JSONParse(files[r.path]).ok
  /\ (Returned /\ ExistsSync(files, start) /\ JSONParse(StartFile).ok
        /\ HasNoVersionField(StartFile))
       => fval = NullVal

\* C1 as amended: a file's contents are read as plain text only when parsing
\* them as JSON failed, or gave a value that is not a non-null object, or an
\* error thrown while following the manifest's volta.extends was caught by
\* the same try block; a parsed non-null object with none of volta.node,
\* engines.node, volta.extends yields null.
C1_PlainTextOnlyWithoutManifest ==
  /\ \A r \in plainApplied :
       LET parsed == JSONParse(files[r.path])
       IN  \/ ~parsed.ok /\ r.caught = "SyntaxError"
           \/ parsed.ok /\ parsed.type # "object" /\ r.caught = "none"
           \/ /\ parsed.ok /\ parsed.type = "object"
              /\ OnlyExtends(files[r.path])
              /\ r.caught \in {"MissingFile", "RangeError"}
  /\ (Returned /\ ExistsSync(files, start) /\ JSONParse(StartFile).ok
        /\ JSONParse(StartFile).type = "object"
        /\ HasNoVersionField(StartFile))
       => fval = NullVal /\ plainApplied = {}

\* a manifest without any of the three fields was resolved to null
C1_Witness ==
  /\ Returned
  /\ files[<<"a">>].kind = "manifest" /\ HasNoVersionField(files[<<"a">>])
  /\ files[<<"p", "a">>] = TextFile(<<"18">>)
  /\ start = <<"a">>
  /\ fval = NullVal
  /\ plainApplied = {}

\* C2: applied to a path that does not exist, whether supplied by the caller
\* or reached through volta.extends, the resolver raises the missing-file
\* error to the original caller, and it raises in no other case.
C2_MissingFileRaised ==
  Returned =>
    ((\E p \in applied : ~ExistsSync(files, p)) <=> fval = Error("MissingFile"))

\* what C4 says the resolver gives for the file at p, following at most n
\* redirections
RECURSIVE ClaimedVersion(_, _)
ClaimedVersion(p, n) ==
  IF ~ExistsSync(files, p) THEN Error("MissingFile")
  ELSE IF ~IsObject(JSONParse(files[p]))
  THEN StringVal(PlainTextVersion(ReadFileSync(files, pretty, p)))
  ELSE IF Truthy(files[p].voltaNode) THEN StringVal(files[p].voltaNode.val)
  ELSE IF Truthy(files[p].enginesNode) THEN StringVal(files[p].enginesNode.val)
  ELSE IF Truthy(files[p].voltaExtends)
  THEN IF n = 0 THEN Error("Unbounded")
       ELSE ClaimedVersion(ExtendedFilePath(p, files[p].voltaExtends.val), n - 1)
  ELSE NullVal

\* the chain of redirections from p comes to an end
FiniteChain(p) == ClaimedVersion(p, Cardinality(Paths)) # Error("Unbounded")

\* C4: a manifest gives volta.node, else engines.node, else the result of
\* resolving the file volta.extends names relative to the manifest's
\* directory, else null ("has the field" read as: holds a non-empty value).
C4_ManifestPrecedence ==
  (Returned /\ ExistsSync(files, start) /\ IsObject(JSONParse(StartFile))
     /\ FiniteChain(start))
    => fval = ClaimedVersion(start, Cardinality(Paths))

\* C10: on a volta.extends chain that leads back into itself with no
\* volta.node or engines.node on the way, the resolver never returns a value
\* to the caller.
C10_CycleNeverReturns ==
  (start \in Paths /\ ~FiniteChain(start))
    => ~(Returned /\ fval.kind \in {"string", "null"})

----------------------------------------------------------------------------
(* Properties of the plain-text reading *)

StartText == StartFile.chars

LineStarts(s) == {i \in 1..(Len(s) + 1) : i = 1 \/ s[i - 1] \in LineTerminators}

\* The ways the text from position i reads as a prefix (0: none, 1: node,
\* 2: nodejs), ws whitespace chunks drawn from wsClass, v "v" chunks and a
\* token of tok chunks that ends its line.
Readings(s, i, wsClass) ==
  {r \in [prefix : 0..2, ws : 0..Len(s), v : 0..1, tok : 1..Len(s)] :
     LET afterPrefix == i + r.prefix
         afterWs == afterPrefix + r.ws
         afterV == afterWs + r.v
         end == afterV + r.tok
     IN  /\ end <= Len(s) + 1
         /\ r.prefix >= 1 => s[i] = "node"
         /\ r.prefix = 2 => s[i + 1] = "js"
         /\ \A k \in afterPrefix..(afterWs - 1) : s[k] \in wsClass
         /\ r.v = 1 => s[afterWs] = "v"
         /\ \A k \in afterV..(end - 1) : s[k] \notin Whitespace
         /\ end = Len(s) + 1 \/ s[end] \in LineTerminators}

Token(s, i, r) ==
  SubSeq(s, i + r.prefix + r.ws + r.v, i + r.prefix + r.ws + r.v + r.tok - 1)

Least(S) == CHOOSE i \in S : \A j \in S : i <= j

\* the shape C8 states: within one line, whitespace optional everywhere
StatedReadings(s, i) == Readings(s, i, Whitespace \ LineTerminators)

\* the shape of the amended C8: whitespace, line breaks included, after the
\* prefix and only there, and at least one of it
SeparatedReadings(s, i) ==
  {r \in Readings(s, i, Whitespace) : (r.prefix = 0) <=> (r.ws = 0)}

\* among the readings from one position: with the prefix if any has it,
\* and among those with the v stripped if any strips it
Preferred(rs) ==
  LET withPrefix == {r \in rs : r.prefix > 0}
      r1 == IF withPrefix # {} THEN withPrefix ELSE rs
      withV == {r \in r1 : r.v = 1}
  IN  IF withV # {} THEN withV ELSE r1

NotJSON == Returned /\ ExistsSync(files, start) /\ ~JSONParse(StartFile).ok

\* C8 as stated: contents that are not JSON give the token of the first line
\* made of an optional node or nodejs, optional whitespace, an optional v and
\* a run of non-whitespace to the end of the line, the prefix and the v
\* stripped; with no such line, the trimmed contents.  Where a line reads
\* in that shape in more than one way, any of its tokens satisfies this.
C8_FirstLineOfStatedShape ==
  NotJSON =>
    LET lines == {i \in LineStarts(StartText) : StatedReadings(StartText, i) # {}}
    IN  IF lines = {} THEN fval = StringVal(Trim(StartText))
        ELSE \E r \in StatedReadings(StartText, Least(lines)) :
               fval = StringVal(Token(StartText, Least(lines), r))

\* C8 as amended: contents that are not JSON give the token found from the
\* first line start from which the text reads as an optional node or nodejs
\* followed by at least one whitespace character (a line break counts), an
\* optional v and a run of non-whitespace to the end of its line, the prefix
\* and the v stripped; with no such line start, the trimmed contents.
C8_FirstLineOfSeparatedShape ==
  NotJSON =>
    LET lines == {i \in LineStarts(StartText) :
                    SeparatedReadings(StartText, i) # {}}
    IN  IF lines = {} THEN fval = StringVal(Trim(StartText))
        ELSE \A r \in Preferred(SeparatedReadings(StartText, Least(lines))) :
               fval = StringVal(Token(StartText, Least(lines), r))

\* "node v18" was resolved to "18"
C8_Witness ==
  /\ NotJSON
  /\ StartText = <<"node", " ", "v", "18">>
  /\ fval = StringVal(<<"18">>)

----------------------------------------------------------------------------
(* Properties of getToolVersion and printEnvDetailsAndSetOutput *)

Probed(t) == task[t].probed /\ task[t].winner # "none"

Logged(kind, t) == \E i \in 1..Len(elog) : elog[i].kind = kind /\ elog[i].tool = t

\* C3: getToolVersion never raises; it returns the trimmed standard output
\* when the execution settled first with exit code 0 and the empty string in
\* every other case.
C3_ReturnsOutputOrEmpty ==
  /\ epc # "threw"
  /\ \A t \in ToolSet :
       /\ task[t].pc # "failed"
       /\ Probed(t) =>
            LET s == task[t].settlement
            IN  /\ task[t].pc = "done"
                /\ ~task[t].raised
                /\ IF task[t].winner = "exec" /\ s.resolved /\ s.exitCode = 0
                   THEN task[t].output = Trim(s.stdout)
                   ELSE task[t].output = <<>>

\* every kind of settlement has been seen: exit code 0 with output to trim,
\* an exit code above 0, a thrown value that is no Error, and the timeout
C3_Witness ==
  /\ task["node"].winner = "exec"
  /\ task["node"].settlement = Resolved(0, <<" ", "v20.1.0", "\n">>, Stderr)
  /\ task["node"].output = <<"v20.1.0">>
  /\ task["npm"].winner = "exec"
  /\ task["npm"].settlement = Rejected(FALSE, <<>>)
  /\ task["npm"].pc = "done"
  /\ task["yarn"].winner = "timer"
  /\ task["yarn"].pc = "done"

\* C5: the timeout message is logged if and only if the timer settled
\* before the execution; a value the execution throws is logged with the
\* execution-error message, or the unknown-error message when it is not an
\* Error.
C5_TimeoutMessageOnlyForTimer ==
  \A t \in ToolSet :
    Probed(t) =>
      /\ Logged("timeout", t) <=> task[t].winner = "timer"
      /\ (task[t].winner = "exec" /\ ~task[t].settlement.resolved)
           => Logged(IF task[t].settlement.isError THEN "execution"
                     ELSE "unknown", t)

IsResultLine(e) == e.kind \in {"result", "setOutput"}

\* C6: the three lookups are all started before any is awaited, no result
\* is emitted before all three have settled, and the results are emitted in
\* the order node, npm, yarn whatever order they settled in.
C6_LaunchOrderReporting ==
  /\ (\E t \in ToolSet : task[t].pc # "notStarted")
       => \A t \in ToolSet : task[t].pc # "notStarted"
  /\ (\E i \in 1..Len(elog) : IsResultLine(elog[i]))
       => \A t \in ToolSet : task[t].pc = "done"
  /\ epc = "done" =>
       SelectSeq(elog, IsResultLine)
         = <<Entry("output", "setOutput", "node", task["node"].output),
             Entry("info", "result", "node", task["node"].output),
             Entry("info", "result", "npm", task["npm"].output),
             Entry("info", "result", "yarn", task["yarn"].output)>>

\* the results were reported after the tools settled in the order yarn, npm,
\* node, with different outputs
C6_Witness ==
  /\ epc = "done"
  /\ settled = <<"yarn", "npm", "node">>
  /\ task["node"].output = <<"v20.1.0">>
  /\ task["npm"].output = <<>>
  /\ task["yarn"].probed

\* C9: every call of getToolVersion returns once its timer fires, whether
\* or not the process ever ends; when the timer settles the race the result
\* is the empty string, and what settles later changes nothing.
C9_TimerBoundsTheProbe ==
  /\ \A t \in ToolSet : (task[t].pc = "racing") ~> (task[t].pc = "done")
  /\ [](\A t \in ToolSet :
          task[t].winner = "timer"
            => task[t].pc = "done" /\ task[t].output = <<>>)
  /\ [][\A t \in ToolSet :
          task[t].pc = "done"
            => /\ task'[t].pc = "done"
               /\ task'[t].output = task[t].output
               /\ task'[t].winner = task[t].winner]_vars

\* a probe has returned on its timer while its process is still running
C9_Witness ==
  /\ task["node"].pc = "done"
  /\ task["node"].winner = "timer"
  /\ task["node"].exec = "pending"
  /\ task["node"].output = <<>>

----------------------------------------------------------------------------
(* Properties of unique *)

SeenBefore(k) ==
  \E j \in 1..(k - 1) :
    calls[j].pred = calls[k].pred /\ calls[j].value = calls[k].value

\* C7: a predicate returns true for a value exactly when that value has not
\* been passed to that same predicate before, whatever was passed to other
\* predicates.
C7_FirstOccurrenceOnly ==
  \A k \in 1..Len(calls) : calls[k].result <=> ~SeenBefore(k)

CallsOf(f) == SelectSeq(calls, LAMBDA c : c.pred = f)

\* f has filtered 1, 2, 1, 3, 2 while g was called with 1 in between
C7_Witness ==
  /\ Len(calls) = 6
  /\ calls[3] = [pred |-> "g", value |-> 1, result |-> TRUE]
  /\ Len(CallsOf("f")) = 5
  /\ [i \in 1..5 |-> CallsOf("f")[i].value] = <<1, 2, 1, 3, 2>>
  /\ [i \in 1..5 |-> CallsOf("f")[i].result] = <<TRUE, TRUE, FALSE, TRUE, FALSE>>

====
